---------------------------- MODULE Spec2Model ----------------------------
(***************************************************************************)
(* 24-hour clock firmware (src/main.c): a timer-0 overflow handler that    *)
(* accumulates microseconds and raises send_pulse, and a main program that *)
(* runs 180 startup cycles and then serves send_pulse by driving the VID29 *)
(* stepper through its six phases.                                         *)
(*                                                                         *)
(* The model is untimed: a timer overflow may be taken between any two     *)
(* steps of main once sei() has run.  The handler itself is not            *)
(* interruptible (the AVR clears the I bit on entry), so main takes no     *)
(* step while the handler is between its statements.                       *)
(***************************************************************************)
EXTENDS Integers, Sequences, FiniteSets, TLC

VARIABLES
    pc,                       \* position of main()
    j,                        \* startup cycle counter, line 89
    i,                        \* phase index of the running for loop, lines 91/104
    PORTB,                    \* output port
    send_pulse,               \* line 59, memory cell shared by handler and main
    unaccounted_microseconds, \* line 117, static of the handler
    isr_pc,                   \* position of the handler: "idle" when not running
    tick_period,              \* microseconds added per handler run
    target_interval,          \* microseconds per pulse request
    ticks,                    \* history: handler runs since boot
    pulses,                   \* history: times the handler executed line 124
    since,                    \* history: handler runs since the last line 124
    last_acc,                 \* history: accumulator when the running handler was entered
    last_flag,                \* history: send_pulse when the running handler was entered
    actuations,               \* history: request-driven actuations completed
    applied,                  \* history: phase codes written to PORTB since boot
    log,                      \* history: the last seven values written to PORTB
    observed,                 \* history: what the last line-100 test saw (2: none yet)
    iter_writes,              \* history: PORTB writes since the last line-100 test
    slept,                    \* history: sleep_mode() has been called at least once
    woken_after,              \* history: a handler run later than the one that last
                              \*   executed line 124 has ended an idle wait
    counting                  \* history: the counters ticks, pulses, actuations and
                              \*   applied are kept (off in the runs without end)

vars == <<pc, j, i, PORTB, send_pulse, unaccounted_microseconds, isr_pc,
          tick_period, target_interval, ticks, pulses, since, last_acc,
          last_flag, actuations, applied, log, observed, iter_writes, slept,
          woken_after, counting>>

mainVars == <<pc, j, i, PORTB, actuations, applied, log, observed,
              iter_writes, slept>>
isrHist == <<ticks, pulses, since, last_acc, last_flag>>
timing == <<tick_period, target_interval>>

(***************************************************************************)
(* Bounds of the model.                                                    *)
(***************************************************************************)
\* Handler runs explored.  Two pulse requests of the deployed constants
\* need 120 runs.
MaxTicks == 121

(***************************************************************************)
(* Compile-time constants, lines 53-56, in avr-gcc arithmetic: an          *)
(* unsuffixed literal is a 16-bit int, an L literal a 32-bit long.         *)
(***************************************************************************)
LONG_MAX == 2147483647

\* Result of a signed overflow.
Undefined == "undefined"

\* 16-bit int product as the AVR computes it (two's complement wrap).
IntMul(a, b) == (((a * b) + 32768) % 65536) - 32768

\* Product of two non-negative longs.
LongMul(a, b) ==
    IF b = 0 \/ a <= LONG_MAX \div b THEN a * b ELSE Undefined

\* Quotient of two positive longs (C truncates towards zero).
LongDiv(a, b) == a \div b

\* Clock frequency in Hz handed to the compiler by the board file
\* attiny85_32khz.json (32.768 kHz watch crystal).
F_CPU == 32768

MICROSECONDS_PER_PULSE == LongMul(LongMul(LongMul(6, 80), 1000), 1000)

MICROSECONDS_PER_INTERRUPT ==
    LongMul(LongDiv(LongMul(1024, 256), F_CPU), 1000000)

\* Line 89 with j <= 180 for j < 180.
StartupCyclesOffByOne == 180 + 1

\* Number of startup cycles, line 89.
StartupCycles == 180

\* Number of phases of one cycle, lines 91 and 104.
Phases == 6

\* stateMap with two neighbouring entries exchanged.
stateMapSwapped == <<5, 1, 2, 3, 6, 4>>

\* Line 72.
stateMap == <<5, 1, 3, 2, 6, 4>>

\* stateMap[k] of the C source, k counted from 0.
PhaseCode(k) == stateMap[k + 1]

(***************************************************************************)
(* The handler's arithmetic, lines 120-122.  unaccounted_microseconds is a *)
(* uint64_t; every value the model reaches is below 2^31, so the sum and   *)
(* the difference are the mathematical ones.                               *)
(***************************************************************************)
AccAdd(a, t) == a + t

\* Line 121 with <= for <.
AccBelowOrEqual(a, p) == a <= p

AccBelow(a, p) == a < p

\* Line 122 as a reset to zero.
AccReset(a, p) == 0

\* Line 122 left out.
AccKeep(a, p) == a

AccSub(a, p) == a - p

(***************************************************************************)
(* History helpers.                                                        *)
(***************************************************************************)
Push(s, v) ==
    LET t == Append(s, v)
    IN  IF Len(t) > Phases + 1 THEN Tail(t) ELSE t

\* A history counter advanced by one step.
Count(x) == IF counting THEN x + 1 ELSE x

\* sleep_mode() never returning.
WakeNever(p) == p

\* sleep_mode() returns when a handler has run.
Wake(p) == IF p = "asleep" THEN "check" ELSE p

\* Interrupts on from reset, without waiting for sei().
InterruptsEnabledEarly == isr_pc = "idle"

\* The I bit: set by sei() (line 85), cleared while the handler runs.
InterruptsEnabled == pc # "boot" /\ isr_pc = "idle"

(***************************************************************************)
(* Initial states.                                                         *)
(***************************************************************************)
Power ==
    /\ pc = "boot"
    /\ j = 0
    /\ i = 0
    /\ PORTB = 0
    /\ send_pulse = 0
    /\ unaccounted_microseconds = 0
    /\ isr_pc = "idle"
    /\ ticks = 0
    /\ pulses = 0
    /\ since = 0
    /\ last_acc = 0
    /\ last_flag = 0
    /\ actuations = 0
    /\ applied = 0
    /\ log = <<>>
    /\ observed = 2
    /\ iter_writes = 0
    /\ slept = FALSE
    /\ woken_after = FALSE

Init ==
    /\ Power
    /\ counting = TRUE
    /\ tick_period = MICROSECONDS_PER_INTERRUPT
    /\ target_interval = MICROSECONDS_PER_PULSE

(***************************************************************************)
(* main(), lines 74-112.                                                   *)
(***************************************************************************)
\* Lines 77-86: peripheral setup, sei(), sleep mode; then j = 0, i = 0.
Setup ==
    /\ pc = "boot"
    /\ isr_pc = "idle"
    /\ j' = 0
    /\ i' = 0
    /\ pc' = IF 0 < StartupCycles THEN "s_write" ELSE "check"
    /\ UNCHANGED <<PORTB, send_pulse, unaccounted_microseconds, isr_pc,
                   actuations, applied, log, observed, iter_writes, slept>>
    /\ UNCHANGED isrHist
    /\ UNCHANGED <<timing, counting, woken_after>>

\* Line 92: PORTB = stateMap[i].
StartupWrite ==
    /\ pc = "s_write"
    /\ isr_pc = "idle"
    /\ PORTB' = PhaseCode(i)
    /\ applied' = Count(applied)
    /\ log' = Push(log, PhaseCode(i))
    /\ iter_writes' = iter_writes + 1
    /\ pc' = "s_delay"
    /\ UNCHANGED <<j, i, send_pulse, unaccounted_microseconds, isr_pc,
                   actuations, observed, slept>>
    /\ UNCHANGED isrHist
    /\ UNCHANGED <<timing, counting, woken_after>>

\* Line 93 and the loop step of line 91: _delay_us, i++, i < 6.
StartupDelay ==
    /\ pc = "s_delay"
    /\ isr_pc = "idle"
    /\ i' = i + 1
    /\ pc' = IF i + 1 < Phases THEN "s_write" ELSE "s_off"
    /\ UNCHANGED <<j, PORTB, send_pulse, unaccounted_microseconds, isr_pc,
                   actuations, applied, log, observed, iter_writes, slept>>
    /\ UNCHANGED isrHist
    /\ UNCHANGED <<timing, counting, woken_after>>

\* Line 95 with a clear of the request added.
StartupOffClearing ==
    /\ pc = "s_off"
    /\ isr_pc = "idle"
    /\ PORTB' = 0
    /\ send_pulse' = 0
    /\ log' = Push(log, 0)
    /\ iter_writes' = iter_writes + 1
    /\ j' = j + 1
    /\ i' = 0
    /\ pc' = IF j + 1 < StartupCycles THEN "s_write" ELSE "check"
    /\ UNCHANGED <<unaccounted_microseconds, isr_pc,
                   actuations, applied, observed, slept>>
    /\ UNCHANGED isrHist
    /\ UNCHANGED <<timing, counting, woken_after>>

\* Line 95 and the loop step of line 89: PORTB = 0, j++, j < 180.
StartupOff ==
    /\ pc = "s_off"
    /\ isr_pc = "idle"
    /\ PORTB' = 0
    /\ log' = Push(log, 0)
    /\ iter_writes' = iter_writes + 1
    /\ j' = j + 1
    /\ i' = 0
    /\ pc' = IF j + 1 < StartupCycles THEN "s_write" ELSE "check"
    /\ UNCHANGED <<send_pulse, unaccounted_microseconds, isr_pc,
                   actuations, applied, observed, slept>>
    /\ UNCHANGED isrHist
    /\ UNCHANGED <<timing, counting, woken_after>>

\* What the test of line 100 may see.  send_pulse is not volatile and
\* sleep_mode() is no compiler barrier, so a build may test the value main
\* last left in the cell, which is always 0, in place of loading it.
Observable == {send_pulse, 0}

\* Line 100: if (send_pulse).
MainCheck ==
    /\ pc = "check"
    /\ isr_pc = "idle"
    /\ \E v \in Observable :
          /\ observed' = v
          /\ pc' = IF v # 0 THEN "clear" ELSE "sleep"
    /\ iter_writes' = 0
    /\ UNCHANGED <<j, i, PORTB, send_pulse, unaccounted_microseconds, isr_pc,
                   actuations, applied, log, slept>>
    /\ UNCHANGED isrHist
    /\ UNCHANGED <<timing, counting, woken_after>>

\* Line 101 left out: the request is not cleared.
MainClearKeeping ==
    /\ pc = "clear"
    /\ isr_pc = "idle"
    /\ i' = 0
    /\ pc' = "m_write"
    /\ UNCHANGED <<j, PORTB, send_pulse, unaccounted_microseconds, isr_pc,
                   actuations, applied, log, observed, iter_writes, slept>>
    /\ UNCHANGED isrHist
    /\ UNCHANGED <<timing, counting, woken_after>>

\* Line 101: send_pulse = 0; then i = 0 of line 104.
MainClear ==
    /\ pc = "clear"
    /\ isr_pc = "idle"
    /\ send_pulse' = 0
    /\ i' = 0
    /\ pc' = "m_write"
    /\ UNCHANGED <<j, PORTB, unaccounted_microseconds, isr_pc,
                   actuations, applied, log, observed, iter_writes, slept>>
    /\ UNCHANGED isrHist
    /\ UNCHANGED <<timing, counting, woken_after>>

\* Line 105: PORTB = stateMap[i].
MainWrite ==
    /\ pc = "m_write"
    /\ isr_pc = "idle"
    /\ PORTB' = PhaseCode(i)
    /\ applied' = Count(applied)
    /\ log' = Push(log, PhaseCode(i))
    /\ iter_writes' = iter_writes + 1
    /\ pc' = "m_delay"
    /\ UNCHANGED <<j, i, send_pulse, unaccounted_microseconds, isr_pc,
                   actuations, observed, slept>>
    /\ UNCHANGED isrHist
    /\ UNCHANGED <<timing, counting, woken_after>>

\* Line 106 and the loop step of line 104: _delay_us, i++, i < 6.
MainDelay ==
    /\ pc = "m_delay"
    /\ isr_pc = "idle"
    /\ i' = i + 1
    /\ pc' = IF i + 1 < Phases THEN "m_write" ELSE "m_off"
    /\ UNCHANGED <<j, PORTB, send_pulse, unaccounted_microseconds, isr_pc,
                   actuations, applied, log, observed, iter_writes, slept>>
    /\ UNCHANGED isrHist
    /\ UNCHANGED <<timing, counting, woken_after>>

\* Line 108 left out: the last phase code stays on the port.
MainOffKeeping ==
    /\ pc = "m_off"
    /\ isr_pc = "idle"
    /\ actuations' = Count(actuations)
    /\ pc' = "sleep"
    /\ UNCHANGED <<j, i, PORTB, send_pulse, unaccounted_microseconds, isr_pc,
                   applied, log, observed, iter_writes, slept>>
    /\ UNCHANGED isrHist
    /\ UNCHANGED <<timing, counting, woken_after>>

\* Line 108: PORTB = 0.
MainOff ==
    /\ pc = "m_off"
    /\ isr_pc = "idle"
    /\ PORTB' = 0
    /\ log' = Push(log, 0)
    /\ iter_writes' = iter_writes + 1
    /\ actuations' = Count(actuations)
    /\ pc' = "sleep"
    /\ UNCHANGED <<j, i, send_pulse, unaccounted_microseconds, isr_pc,
                   applied, observed, slept>>
    /\ UNCHANGED isrHist
    /\ UNCHANGED <<timing, counting, woken_after>>

\* Line 108 moved behind the if block: PORTB = 0 on every wake.
MainSleepWriting ==
    /\ pc = "sleep"
    /\ isr_pc = "idle"
    /\ PORTB' = 0
    /\ log' = Push(log, 0)
    /\ iter_writes' = iter_writes + 1
    /\ pc' = "asleep"
    /\ slept' = TRUE
    /\ UNCHANGED <<j, i, send_pulse, unaccounted_microseconds, isr_pc,
                   actuations, applied, observed>>
    /\ UNCHANGED isrHist
    /\ UNCHANGED <<timing, counting, woken_after>>

\* Line 110: sleep_mode(); main stops until a handler has run.
MainSleep ==
    /\ pc = "sleep"
    /\ isr_pc = "idle"
    /\ pc' = "asleep"
    /\ slept' = TRUE
    /\ UNCHANGED <<j, i, PORTB, send_pulse, unaccounted_microseconds, isr_pc,
                   actuations, applied, log, observed, iter_writes>>
    /\ UNCHANGED isrHist
    /\ UNCHANGED <<timing, counting, woken_after>>

(***************************************************************************)
(* ISR(TIMER0_OVF_vect), lines 115-125.                                    *)
(***************************************************************************)
\* Timer 0 overflows with interrupts enabled; line 120.
ISR_Enter ==
    /\ InterruptsEnabled
    /\ counting => ticks < MaxTicks
    /\ unaccounted_microseconds' = AccAdd(unaccounted_microseconds, tick_period)
    /\ isr_pc' = "test"
    /\ ticks' = Count(ticks)
    /\ since' = since + 1
    /\ last_acc' = unaccounted_microseconds
    /\ last_flag' = send_pulse
    /\ UNCHANGED <<send_pulse, pulses>>
    /\ UNCHANGED mainVars
    /\ UNCHANGED <<timing, counting, woken_after>>

\* Line 121, accumulator below the interval: return.
ISR_Return ==
    /\ isr_pc = "test"
    /\ AccBelow(unaccounted_microseconds, target_interval)
    /\ isr_pc' = "idle"
    /\ pc' = Wake(pc)
    /\ woken_after' = (woken_after \/ pc = "asleep")
    /\ UNCHANGED <<j, i, PORTB, send_pulse, unaccounted_microseconds,
                   actuations, applied, log, observed, iter_writes, slept>>
    /\ UNCHANGED isrHist
    /\ UNCHANGED <<timing, counting>>

\* Lines 121-122, interval reached: subtract it.
ISR_Subtract ==
    /\ isr_pc = "test"
    /\ ~AccBelow(unaccounted_microseconds, target_interval)
    /\ unaccounted_microseconds' = AccSub(unaccounted_microseconds, target_interval)
    /\ isr_pc' = "set"
    /\ UNCHANGED send_pulse
    /\ UNCHANGED mainVars
    /\ UNCHANGED isrHist
    /\ UNCHANGED <<timing, counting, woken_after>>

\* Line 124 with a write of the all-off code to the port added.
ISR_SetTouchingPort ==
    /\ isr_pc = "set"
    /\ send_pulse' = 1
    /\ PORTB' = 0
    /\ pulses' = Count(pulses)
    /\ since' = 0
    /\ isr_pc' = "idle"
    /\ pc' = Wake(pc)
    /\ woken_after' = FALSE
    /\ UNCHANGED <<j, i, unaccounted_microseconds,
                   actuations, applied, log, observed, iter_writes, slept>>
    /\ UNCHANGED <<ticks, last_acc, last_flag>>
    /\ UNCHANGED <<timing, counting>>

\* Line 124: send_pulse = 1; return.
ISR_Set ==
    /\ isr_pc = "set"
    /\ send_pulse' = 1
    /\ pulses' = Count(pulses)
    /\ since' = 0
    /\ isr_pc' = "idle"
    /\ pc' = Wake(pc)
    /\ woken_after' = FALSE
    /\ UNCHANGED <<j, i, PORTB, unaccounted_microseconds,
                   actuations, applied, log, observed, iter_writes, slept>>
    /\ UNCHANGED <<ticks, last_acc, last_flag>>
    /\ UNCHANGED <<timing, counting>>

Next ==
    \/ Setup
    \/ StartupWrite
    \/ StartupDelay
    \/ StartupOff
    \/ MainCheck
    \/ MainClear
    \/ MainWrite
    \/ MainDelay
    \/ MainOff
    \/ MainSleep
    \/ ISR_Enter
    \/ ISR_Return
    \/ ISR_Subtract
    \/ ISR_Set

Spec == Init /\ [][Next]_vars

(***************************************************************************)
(* The handler and the main loop with other timing constants: the program  *)
(* at its first idle wait (startup done, nothing requested yet), with the  *)
(* tick period and the target interval drawn from TimingCases.  Like the   *)
(* deployed constants, every case has a tick period no longer than the     *)
(* target interval.                                                        *)
(***************************************************************************)
TimingCases ==
    { <<32, 100>>, <<3, 7>>, <<5, 5>>,
      <<MICROSECONDS_PER_INTERRUPT, MICROSECONDS_PER_PULSE>> }

AtFirstWait ==
    /\ pc = "asleep"
    /\ j = StartupCycles
    /\ i = 0
    /\ PORTB = 0
    /\ send_pulse = 0
    /\ unaccounted_microseconds = 0
    /\ isr_pc = "idle"
    /\ ticks = 0
    /\ pulses = 0
    /\ since = 0
    /\ last_acc = 0
    /\ last_flag = 0
    /\ actuations = 0
    /\ applied = StartupCycles * Phases
    /\ log = Append(stateMap, 0)
    /\ observed = 0
    /\ iter_writes = 0
    /\ slept = TRUE
    /\ woken_after = FALSE

InitAcc ==
    /\ AtFirstWait
    /\ counting = TRUE
    /\ \E c \in TimingCases :
          /\ tick_period = c[1]
          /\ target_interval = c[2]

NextAcc ==
    \/ MainCheck
    \/ MainClear
    \/ MainWrite
    \/ MainDelay
    \/ MainOff
    \/ MainSleep
    \/ ISR_Enter
    \/ ISR_Return
    \/ ISR_Subtract
    \/ ISR_Set

AccSpec == InitAcc /\ [][NextAcc]_vars

(***************************************************************************)
(* The program running without end: the timer overflows again and again    *)
(* and the processor keeps executing, in main and in the handler.  The     *)
(* history counters are switched off, so the state space is finite.        *)
(* main is enabled again after every return of the handler and the         *)
(* processor then executes it before it serves the next overflow, so main  *)
(* steps whenever it is enabled again and again (strong fairness).         *)
(***************************************************************************)
InitLive ==
    /\ Power
    /\ counting = FALSE
    /\ tick_period = MICROSECONDS_PER_INTERRUPT
    /\ target_interval = MICROSECONDS_PER_PULSE

\* A step of main().
MainStep ==
    \/ Setup
    \/ StartupWrite
    \/ StartupDelay
    \/ StartupOff
    \/ MainCheck
    \/ MainClear
    \/ MainWrite
    \/ MainDelay
    \/ MainOff
    \/ MainSleep

\* A step of the handler after its entry.
HandlerStep == ISR_Return \/ ISR_Subtract \/ ISR_Set

LiveSpec ==
    /\ InitLive
    /\ [][Next]_vars
    /\ SF_vars(MainStep)
    /\ WF_vars(ISR_Enter)
    /\ WF_vars(HandlerStep)

(***************************************************************************)
(* Properties.                                                             *)
(***************************************************************************)
\* The codes of one actuation in the order the claims give them.
CycleCodes == <<5, 1, 3, 2, 6, 4>>

\* The PORTB writes recorded in s after the last all-off write.
SinceOff(s) ==
    LET offs == {k \in 1..Len(s) : s[k] = 0}
        last == IF offs = {} THEN 0 ELSE CHOOSE k \in offs : \A m \in offs : m <= k
    IN  SubSeq(s, last + 1, Len(s))

\* C1: whenever the handler is not running (so after every completed run of
\* it), 0 <= unaccounted_microseconds < the target interval, which for the
\* deployed constants is MICROSECONDS_PER_PULSE.
C1_AccumulatorInRange ==
    isr_pc = "idle" =>
        /\ 0 <= unaccounted_microseconds
        /\ unaccounted_microseconds < target_interval

\* C1 witness: a handler run that reached the interval has completed and a
\* later run has carried on from its remainder.
C1_Witness ==
    /\ isr_pc = "idle"
    /\ target_interval = MICROSECONDS_PER_PULSE
    /\ pulses = 1
    /\ since = 1
    /\ unaccounted_microseconds = MICROSECONDS_PER_INTERRUPT

\* C2: after N completed handler runs the number of pulse requests raised is
\* floor(N * tick_period / target_interval), for every timing case.
C2_RateExact ==
    isr_pc = "idle" => pulses = (ticks * tick_period) \div target_interval

\* C2 witness: several requests raised with an interval that is no multiple
\* of the tick period, the handler at rest with a remainder carried.
C2_Witness ==
    /\ isr_pc = "idle"
    /\ tick_period = 32
    /\ target_interval = 100
    /\ pulses = 8
    /\ ticks = 25
    /\ unaccounted_microseconds = 0

\* C3: no pulse request is lost.  (a) A request that is in send_pulse when
\* main tests it (line 100) is taken up: main goes on to clear it and
\* actuate.  (b) When main is in or about to enter its idle wait, the handler
\* is at rest and no request is pending, every request raised has had its own
\* actuation.
C3_NoRequestLost ==
    /\ [][(pc = "check" /\ pc' # "check" /\ send_pulse = 1) => pc' = "clear"]_vars
    /\ []((pc \in {"sleep", "asleep"} /\ isr_pc = "idle" /\ send_pulse = 0)
             => actuations = pulses)

\* C4: the PORTB writes since the last all-off write are the first codes of
\* the table in order; an all-off write is preceded by exactly the six codes;
\* outside an actuation the last seven writes are the six codes and the
\* all-off code.
C4_PhaseSequence ==
    LET cur == SinceOff(log)
    IN  /\ Len(cur) <= 6
        /\ \A k \in 1..Len(cur) : cur[k] = CycleCodes[k]
        /\ (log # <<>> /\ log[Len(log)] = 0) => log = Append(CycleCodes, 0)
        /\ pc \in {"s_write", "m_write"} => Len(cur) = i
        /\ pc \in {"s_delay", "m_delay"} => Len(cur) = i + 1
        /\ pc \in {"s_off", "m_off"} => Len(cur) = 6
        /\ pc \in {"check", "clear", "sleep", "asleep"} => log = Append(CycleCodes, 0)
        /\ log # <<>> => PORTB = log[Len(log)]

\* C4 witness: a request-driven actuation has completed with handler runs
\* taken after the request was raised, and the handler is running again.
C4_Witness ==
    /\ pc = "sleep"
    /\ observed = 1
    /\ iter_writes = 7
    /\ log = Append(CycleCodes, 0)
    /\ since > 0
    /\ isr_pc = "test"

\* C5: when the handler is about to raise a request (line 124), the handler
\* runs since the previous request (since boot for the first), this one
\* included, add up to at least MICROSECONDS_PER_PULSE.
C5_NoDoubleCount ==
    isr_pc = "set" => since * MICROSECONDS_PER_INTERRUPT >= MICROSECONDS_PER_PULSE

\* C5 witness: the handler is about to raise a second request, 60 runs after
\* the first.
C5_Witness ==
    /\ isr_pc = "set"
    /\ pulses = 1
    /\ since = 60
    /\ ticks = 120

\* C6: one handler run entered with accumulator a and flag f returns with
\* accumulator a + tick and flag f when a + tick < target, and with
\* accumulator a + tick - target and the flag set otherwise; with tick 32 and
\* target 100 the first request is raised by the 4th run and leaves 28.
C6_HandlerStep ==
    /\ [][(isr_pc # "idle" /\ isr_pc' = "idle") =>
            IF last_acc + tick_period < target_interval
            THEN /\ unaccounted_microseconds' = last_acc + tick_period
                 /\ send_pulse' = last_flag
            ELSE /\ unaccounted_microseconds' = last_acc + tick_period - target_interval
                 /\ send_pulse' = 1]_vars
    /\ [][(tick_period = 32 /\ target_interval = 100 /\ pulses = 0 /\ pulses' = 1) =>
            /\ ticks' = 4
            /\ unaccounted_microseconds' = 28]_vars

\* C6 witness: tick 32, target 100, the 4th run has just raised the first
\* request and left 28.
C6_Witness ==
    /\ tick_period = 32
    /\ target_interval = 100
    /\ isr_pc = "idle"
    /\ ticks = 4
    /\ pulses = 1
    /\ send_pulse = 1
    /\ unaccounted_microseconds = 28

\* C7: an iteration of the main loop whose test of line 100 saw the flag
\* clear goes straight to the idle wait and writes nothing to PORTB.
C7_IdleNoWrites ==
    observed = 0 =>
        /\ pc \in {"sleep", "asleep", "check"}
        /\ iter_writes = 0
        /\ PORTB = 0

\* C7 witness: main has been woken after an actuation, saw the flag clear and
\* is in the idle wait again.
C7_Witness ==
    /\ pc = "asleep"
    /\ observed = 0
    /\ actuations = 1
    /\ ticks > 60

C9_DeployedTiming ==
    /\ MICROSECONDS_PER_INTERRUPT = 8000000
    /\ MICROSECONDS_PER_PULSE = 480000000
    /\ LongMul(1024, 256) % F_CPU = 0
    /\ isr_pc = "set" => (ticks % 60 = 0 /\ unaccounted_microseconds = 0)
    /\ isr_pc = "idle" =>
          /\ pulses = ticks \div 60
          /\ ticks % 60 = 0 => unaccounted_microseconds = 0

\* C9 witness: the 120th run has raised the second request.
C9_Witness ==
    /\ isr_pc = "idle"
    /\ ticks = 120
    /\ pulses = 2
    /\ since = 0
    /\ unaccounted_microseconds = 0

\* C10: send_pulse goes from 0 to 1 only in line 124 of the handler and from 1
\* to 0 only in line 101 of the main loop.
C10_FlagWriters ==
    [][send_pulse' # send_pulse =>
          \/ (send_pulse = 0 /\ send_pulse' = 1 /\ isr_pc = "set")
          \/ (send_pulse = 1 /\ send_pulse' = 0 /\ pc = "clear" /\ isr_pc = "idle")]_vars

\* C10 witness: the handler has raised two requests and the main loop has
\* just cleared the flag for the second time.
C10_Witness ==
    /\ pc = "m_write"
    /\ send_pulse = 0
    /\ pulses = 2
    /\ actuations = 1

\* C11: whenever the handler executes line 124, send_pulse is 0 just before:
\* a request is never raised on top of one that is still set.
C11_SetFromClear ==
    [][(isr_pc = "set" /\ isr_pc' = "idle") => send_pulse = 0]_vars

\* C12: a request is served within one tick period: main is never in its idle
\* wait with the request still set after a handler run later than the one that
\* raised it has ended an idle wait.
C12_ServedWithinOneTick ==
    (pc = "asleep" /\ send_pulse = 1) => ~woken_after

\* Request-driven actuations started: those completed and the one under way.
Started ==
    actuations + (IF pc \in {"m_write", "m_delay", "m_off"} THEN 1 ELSE 0)

\* C13: main clears the flag (line 101) before it applies a phase code, and
\* at every point the request-driven actuations started are at most the
\* requests the handler has raised.
C13_OneActuationPerRequest ==
    /\ [](Started <= pulses)
    /\ [](pc = "clear" => (iter_writes = 0 /\ observed = 1))
    /\ [][(pc = "clear" /\ pc' # "clear") =>
            (send_pulse' = 0 /\ PORTB' = PORTB /\ applied' = applied)]_vars

\* C13 witness: the second request has been cleared and its actuation is
\* about to apply the first phase code.
C13_Witness ==
    /\ pc = "m_write"
    /\ i = 0
    /\ send_pulse = 0
    /\ pulses = 2
    /\ actuations = 1

C15_HandlerFrame ==
    [][(isr_pc # "idle" \/ isr_pc' # "idle") =>
          /\ PORTB' = PORTB
          /\ i' = i
          /\ j' = j
          /\ log' = log
          /\ pc # "asleep" => pc' = pc]_vars

\* C15 witness: a handler run has raised a request in the middle of an
\* actuation, with the third code still on the pins.
C15_Witness ==
    /\ pc = "m_delay"
    /\ i = 2
    /\ PORTB = 3
    /\ isr_pc = "idle"
    /\ send_pulse = 1
    /\ since = 0

\* C16: whenever main is in its idle wait, or about to enter it, the output
\* port holds the all-off code 0.
C16_OffWhileIdle ==
    pc \in {"sleep", "asleep"} => PORTB = 0

\* C16 witness: main is in its idle wait after a request-driven actuation.
C16_Witness ==
    /\ pc = "asleep"
    /\ observed = 1
    /\ actuations = 1
    /\ iter_writes = 7
    /\ PORTB = 0

\* C17: at every point, also between the addition and the subtraction of the
\* handler, unaccounted_microseconds is below the target interval plus one
\* tick period (MICROSECONDS_PER_PULSE + MICROSECONDS_PER_INTERRUPT for the
\* deployed constants), a bound that fits 31 bits and so lies far below 2^64.
C17_AccumulatorBounded ==
    /\ 0 <= unaccounted_microseconds
    /\ unaccounted_microseconds < target_interval + tick_period
    /\ target_interval <= LONG_MAX - tick_period
    /\ MICROSECONDS_PER_PULSE <= LONG_MAX - MICROSECONDS_PER_INTERRUPT

\* C17 witness: the handler is between its addition and its subtraction with
\* the accumulator above the target interval.
C17_Witness ==
    /\ isr_pc = "test"
    /\ tick_period = 32
    /\ target_interval = 100
    /\ unaccounted_microseconds = 128

\* C18: with the timer overflowing for ever main tests the flag (line 100)
\* again and again.  Line 100 is reached only from the end of the startup
\* cycles and from an idle wait that has been left, and an actuation that has
\* started leads nowhere but into the idle wait: so the startup cycles end,
\* every actuation ends in the idle wait, and every idle wait is left.
C18_NoStuckState ==
    []<>(pc = "check")

\* C18 witness: main is in its idle wait again after a request-driven
\* actuation that followed an earlier idle wait.
C18_Witness ==
    /\ pc = "asleep"
    /\ observed = 1
    /\ iter_writes = 7
    /\ woken_after
    /\ ~counting

Bit(v, k) == (v \div (2 ^ k)) % 2

\* Number of the eight port bits in which a and b differ.
BitsChanged(a, b) == Cardinality({k \in 0..7 : Bit(a, k) # Bit(b, k)})

\* C20: the output port holds 0 or one of the six table codes, never 7 and
\* never a bit above PB2; the six codes are pairwise distinct, and each
\* differs from its cyclic successor in exactly one bit.
C20_PortCodes ==
    /\ PORTB \in {0, 5, 1, 3, 2, 6, 4}
    /\ PORTB # 7
    /\ \A k \in 3..7 : Bit(PORTB, k) = 0
    /\ Len(stateMap) = 6
    /\ \A a, b \in 1..Len(stateMap) : a # b => stateMap[a] # stateMap[b]
    /\ \A k \in 1..Len(stateMap) :
          BitsChanged(stateMap[k], stateMap[(k % Len(stateMap)) + 1]) = 1

\* C20 witness: the last table code is on the pins during a request-driven
\* actuation.
C20_Witness ==
    /\ pc = "m_delay"
    /\ i = 5
    /\ PORTB = 4
    /\ observed = 1

=============================================================================
